---- MODULE Spec2Model ----
(***************************************************************************)
(* A model of action_agent.py: the two helper tools (log_action,           *)
(* validate_request), the module-level startup sequence (endpoint URL,     *)
(* MCP client session, tool list, agent), and the FastAPI routes           *)
(* (POST /, GET /health, GET /schema).                                     *)
(*                                                                         *)
(* A Python string is modelled as a sequence of tokens (TLA+ strings): an  *)
(* f-string is the concatenation of its literal fragments and its          *)
(* arguments, so "contains verbatim" is "is a contiguous subsequence".     *)
(***************************************************************************)
EXTENDS Integers, Sequences, FiniteSets, TLC

\* ------------------------------------------------------------------ bounds

\* longest action / target / result text given to log_action, in tokens
MaxLen == 2
\* most tool descriptors the remote MCP server lists
MaxTools == 1
\* longest "parameters" array of a POST / body
MaxParams == 2

\* ------------------------------------------------------------ text helpers

\* the tokens texts are drawn from; they include fragments the format
\* strings themselves use
Alphabet == {"a@b.com", " on "}

RECURSIVE TextsUpTo(_)
TextsUpTo(n) ==
    IF n = 0 THEN {<<>>}
    ELSE LET shorter == TextsUpTo(n - 1)
         IN  shorter \cup {Append(t, c) : t \in shorter, c \in Alphabet}

Texts == TextsUpTo(MaxLen)

\* x occurs in s as a contiguous run of tokens
Contains(s, x) ==
    \E i \in 1..(Len(s) - Len(x) + 1) : SubSeq(s, i, i + Len(x) - 1) = x

\* sep.join(items), items a sequence of tokens
RECURSIVE Join(_, _)
Join(items, sep) ==
    IF Len(items) = 0 THEN <<>>
    ELSE IF Len(items) = 1 THEN <<items[1]>>
    ELSE <<items[1], sep>> \o Join(Tail(items), sep)

Range(seq) == {seq[i] : i \in 1..Len(seq)}

\* ------------------------------------------------------------ helper tools

\* log_action: the line it prints
log_action_line(action, target, result) ==
    <<"[LOG] ">> \o action \o <<" on ">> \o target \o <<": ">> \o result

\* a variant whose confirmation leaves the target out
log_action_return_dropping_target(action, target, result) ==
    <<"Logged: ">> \o action \o <<" on ">> \o <<": ">> \o result

\* log_action: the string it returns
log_action_return(action, target, result) ==
    <<"Logged: ">> \o action \o <<" on ">> \o target \o <<": ">> \o result

\* a variant that writes its line twice
log_action_prints_twice(action, target, result) ==
    <<log_action_line(action, target, result),
      log_action_line(action, target, result)>>

\* log_action: everything it writes to standard output
log_action_output(action, target, result) ==
    <<log_action_line(action, target, result)>>

\* the fixed table of validate_request
required_fields ==
    [create_user  |-> <<"email", "first_name", "last_name">>,
     grant_access |-> <<"user_id", "resource_id">>,
     assign_group |-> <<"user_id", "group_id">>]

KnownKinds == DOMAIN required_fields

\* request kinds tried: the table's, two that are not in it
RequestKinds == KnownKinds \cup {"unknown_kind", "delete_user"}

\* every field of every known kind, and one no kind requires
AllRequired == UNION {Range(required_fields[k]) : k \in KnownKinds}
FieldNames == AllRequired \cup {"note"}

\* a variant that reports a known kind invalid only when all its fields are
\* missing
validate_request_any_missing(request_type, data) ==
    IF request_type \notin DOMAIN required_fields
    THEN [valid |-> FALSE,
          error |-> <<"Unknown request_type: ", request_type>>]
    ELSE LET fields  == required_fields[request_type]
             missing == SelectSeq(fields, LAMBDA f : f \notin data)
         IN  IF Len(missing) = Len(fields) /\ Len(fields) > 0
             THEN [valid |-> FALSE,
                   error |-> <<"Missing fields: ">> \o Join(missing, ", ")]
             ELSE [valid |-> TRUE]

\* a variant that looks for missing fields before it looks the kind up
validate_request_fields_first(request_type, data) ==
    LET fields  == IF request_type \in DOMAIN required_fields
                   THEN required_fields[request_type]
                   ELSE required_fields["create_user"]
        missing == SelectSeq(fields, LAMBDA f : f \notin data)
    IN  IF Len(missing) > 0
        THEN [valid |-> FALSE,
              error |-> <<"Missing fields: ">> \o Join(missing, ", ")]
        ELSE IF request_type \notin DOMAIN required_fields
        THEN [valid |-> FALSE,
              error |-> <<"Unknown request_type: ", request_type>>]
        ELSE [valid |-> TRUE]

\* a variant whose error lists every required field of the kind
validate_request_lists_all_required(request_type, data) ==
    IF request_type \notin DOMAIN required_fields
    THEN [valid |-> FALSE,
          error |-> <<"Unknown request_type: ", request_type>>]
    ELSE LET fields  == required_fields[request_type]
             missing == SelectSeq(fields, LAMBDA f : f \notin data)
         IN  IF Len(missing) > 0
             THEN [valid |-> FALSE,
                   error |-> <<"Missing fields: ">> \o Join(fields, ", ")]
             ELSE [valid |-> TRUE]

\* validate_request. The mapping `data` is modelled by its key set: the code
\* reads it only through `f not in data`.
validate_request(request_type, data) ==
    IF request_type \notin DOMAIN required_fields
    THEN [valid |-> FALSE,
          error |-> <<"Unknown request_type: ", request_type>>]
    ELSE LET fields  == required_fields[request_type]
             missing == SelectSeq(fields, LAMBDA f : f \notin data)
         IN  IF Len(missing) > 0
             THEN [valid |-> FALSE,
                   error |-> <<"Missing fields: ">> \o Join(missing, ", ")]
             ELSE [valid |-> TRUE]

\* ------------------------------------------------------------ JSON values

\* a JSON scalar, tagged with its Python type
JStr(s) == [t |-> "str", v |-> s]
JNum(s) == [t |-> "num", v |-> s]
JNone   == [t |-> "none", v |-> ""]

\* Python truthiness of a scalar
Truthy(x) ==
    \/ x.t = "str" /\ x.v # ""
    \/ x.t = "num" /\ x.v # "0"

\* d.get(k): None when the key is absent
dict_get(d, k) == IF k \in DOMAIN d THEN d[k] ELSE JNone

\* d.get(k, default)
dict_get_default(d, k, default) == IF k \in DOMAIN d THEN d[k] ELSE default

\* json.loads on a string: the decoded value, or a failure (JSONDecodeError)
json_loads(s) ==
    CASE s = "42"   -> [ok |-> TRUE, val |-> JNum("42")]
      [] s = "null" -> [ok |-> TRUE, val |-> JNone]
      [] OTHER      -> [ok |-> FALSE, val |-> JNone]

\* json.dumps / repr of a scalar, as tokens
json_dumps_value(x) ==
    CASE x.t = "none" -> <<"null">>
      [] x.t = "num"  -> <<x.v>>
      [] OTHER        -> <<"\"", x.v, "\"">>

repr_value(x) ==
    CASE x.t = "none" -> <<"None">>
      [] x.t = "num"  -> <<x.v>>
      [] OTHER        -> <<"'", x.v, "'">>

\* an insertion-ordered dict is a sequence of [k, v] items with distinct keys
DictKeys(d) == {d[i].k : i \in 1..Len(d)}

\* d[k] = v: an existing key keeps its place
DictSet(d, k, v) ==
    IF k \in DictKeys(d)
    THEN [i \in 1..Len(d) |-> IF d[i].k = k THEN [k |-> k, v |-> v] ELSE d[i]]
    ELSE Append(d, [k |-> k, v |-> v])

RECURSIVE json_dumps_items(_)
json_dumps_items(d) ==
    IF Len(d) = 0 THEN <<>>
    ELSE <<"\"", d[1].k, "\": ">> \o json_dumps_value(d[1].v)
         \o (IF Len(d) > 1 THEN <<", ">> ELSE <<>>)
         \o json_dumps_items(Tail(d))

\* json.dumps of a dict of scalars
json_dumps(d) == <<"{">> \o json_dumps_items(d) \o <<"}">>

\* ------------------------------------------------- request and response

MSGRAPH_MCP_URL == "http://100.28.229.240:8000/mcp"

\* a variant that does not echo the function it is given
format_bedrock_response_unknown_function(action_group, function, response_body) ==
    [messageVersion |-> "1.0",
     response |->
        [actionGroup |-> action_group,
         function |-> "unknown",
         functionResponse |->
            [responseBody |-> [TEXT |-> [body |-> response_body]]]]]

format_bedrock_response(action_group, function, response_body) ==
    [messageVersion |-> "1.0",
     response |->
        [actionGroup |-> action_group,
         function |-> function,
         functionResponse |->
            [responseBody |-> [TEXT |-> [body |-> response_body]]]]]

\* a variant of the loop in which the first entry of a name wins
RECURSIVE parse_loop_first_wins(_, _)
parse_loop_first_wins(entries, result) ==
    IF Len(entries) = 0 THEN result
    ELSE LET param == Head(entries)
             name  == dict_get(param, "name")
             value == dict_get(param, "value")
             dec   == IF value.t = "str" THEN json_loads(value.v)
                      ELSE [ok |-> FALSE, val |-> JNone]
             next  == IF Truthy(name) /\ Truthy(value)
                         /\ name.v \notin DictKeys(result)
                      THEN DictSet(result, name.v,
                                   IF dec.ok THEN dec.val ELSE value)
                      ELSE result
         IN  parse_loop_first_wins(Tail(entries), next)

\* the loop of parse_bedrock_parameters over the entries left, result so far
RECURSIVE parse_loop(_, _)
parse_loop(entries, result) ==
    IF Len(entries) = 0 THEN result
    ELSE LET param == Head(entries)
             name  == dict_get(param, "name")
             value == dict_get(param, "value")
             dec   == IF value.t = "str" THEN json_loads(value.v)
                      ELSE [ok |-> FALSE, val |-> JNone]
             next  == IF Truthy(name) /\ Truthy(value)
                      THEN DictSet(result, name.v,
                                   IF dec.ok THEN dec.val ELSE value)
                      ELSE result
         IN  parse_loop(Tail(entries), next)

\* parse_bedrock_parameters: a dict, or the exception `for param in` raises
\* when `parameters` is no list
parse_bedrock_parameters(parameters) ==
    IF parameters.t = "list"
    THEN [ok |-> TRUE, val |-> parse_loop(parameters.items, <<>>), err |-> <<>>]
    ELSE [ok |-> FALSE, val |-> <<>>,
          err |-> <<"'int' object is not iterable">>]

\* repr(parameters), as tokens
RECURSIVE repr_entries(_)
repr_entries(entries) ==
    IF Len(entries) = 0 THEN <<>>
    ELSE LET e == Head(entries)
         IN  <<"{">>
             \o (IF "name" \in DOMAIN e
                 THEN <<"'name': ">> \o repr_value(e["name"]) ELSE <<>>)
             \o (IF DOMAIN e = {"name", "value"} THEN <<", ">> ELSE <<>>)
             \o (IF "value" \in DOMAIN e
                 THEN <<"'value': ">> \o repr_value(e["value"]) ELSE <<>>)
             \o <<"}">>
             \o (IF Len(entries) > 1 THEN <<", ">> ELSE <<>>)
             \o repr_entries(Tail(entries))

repr_parameters(parameters) ==
    IF parameters.t = "list"
    THEN <<"[">> \o repr_entries(parameters.items) \o <<"]">>
    ELSE <<parameters.v>>

\* the response of the framework to an exception that leaves a route handler
InternalServerError ==
    [status_code |-> 500, content |-> [text |-> "Internal Server Error"]]

JSONResponse(content, status_code) ==
    [status_code |-> status_code, content |-> content]

\* ---------------------------------------------------------- POST / handler

\* what one run of the handler leaves behind: the HTTP response, the lines
\* written to standard output, the prompts handed to agent.run, and whether
\* the except clause ran
Handled(response, lines, prompts, raised) ==
    [response |-> response, printed |-> lines, prompts |-> prompts,
     raised |-> raised]

\* a variant of the except clause that answers with a server-error status
handler_except_status_500(raw, msg, lines, prompts) ==
    LET errLine == <<"[Error] ">> \o msg
        body    == raw.obj
    IN  Handled(JSONResponse(
                    format_bedrock_response(
                        dict_get_default(body, "actionGroup", "unknown"),
                        dict_get_default(body, "function", "unknown"),
                        <<"Error: ">> \o msg),
                    500),
                Append(lines, errLine), prompts, TRUE)

\* the except clause: `body` is unbound when request.json() raised, and is
\* no dict when the JSON text is no object; body.get then raises inside the
\* clause and the exception leaves the handler
handler_except(raw, msg, lines, prompts) ==
    LET errLine == <<"[Error] ">> \o msg
        body    == raw.obj
    IN  IF raw.kind # "object"
        THEN Handled(InternalServerError, Append(lines, errLine), prompts, TRUE)
        ELSE Handled(JSONResponse(
                         format_bedrock_response(
                             dict_get_default(body, "actionGroup", "unknown"),
                             dict_get_default(body, "function", "unknown"),
                             <<"Error: ">> \o msg),
                         200),
                     Append(lines, errLine), prompts, TRUE)

\* the handler on the request body `raw`, the agent behaving as `outcome`
bedrock_action_handler(raw, outcome) ==
    LET body          == raw.obj
        action_group  == dict_get_default(body, "actionGroup", "unknown")
        function_name == dict_get_default(body, "function", "unknown")
        parameters    == dict_get_default(body, "parameters",
                                          [t |-> "list", items |-> <<>>])
        input_text    == dict_get_default(body, "inputText", "")
        session_id    == dict_get_default(body, "sessionId", "")
        requestLines  ==
            << <<>>,
               <<"[Bedrock Request] Function: ", function_name>>,
               <<"[Bedrock Request] Parameters: ">>
                   \o repr_parameters(parameters),
               <<"[Bedrock Request] Input: ", input_text>> >>
        parsed        == parse_bedrock_parameters(parameters)
        params        == parsed.val
        prompt        ==
            IF input_text # ""
            THEN <<input_text, "\n\nFunction to execute: ", function_name,
                   "\nParameters: ">> \o json_dumps(params)
            ELSE <<"Execute ", function_name, " with parameters: ">>
                 \o json_dumps(params)
        result        == outcome.text
        response      == format_bedrock_response(action_group, function_name,
                                                 result)
        responseLines == << <<"[Bedrock Response] ">> \o result, <<>> >>
    IN  IF raw.kind = "invalid"
        THEN handler_except(raw,
                 <<"Expecting value: line 1 column 1 (char 0)">>, <<>>, <<>>)
        ELSE IF raw.kind # "object"
        THEN handler_except(raw,
                 <<"'list' object has no attribute 'get'">>, <<>>, <<>>)
        ELSE IF ~parsed.ok
        THEN handler_except(raw, parsed.err, requestLines, <<>>)
        ELSE IF outcome.kind = "raise"
        THEN handler_except(raw, outcome.text, requestLines, <<prompt>>)
        ELSE IF outcome.kind = "object"
        THEN handler_except(raw,
                 <<"Object of type AgentResult is not JSON serializable">>,
                 requestLines \o responseLines, <<prompt>>)
        ELSE Handled(JSONResponse(response, 200),
                     requestLines \o responseLines, <<prompt>>, FALSE)

\* ------------------------------------------------------------- GET routes

\* a variant of /health that reports the remote tools only
health_check_remote_only(tools) ==
    [status |-> "healthy", tools |-> Len(tools) - 2,
     msgraph_mcp |-> MSGRAPH_MCP_URL]

\* the payload of GET /health, `tools` being all_tools
health_check(tools) ==
    [status |-> "healthy", tools |-> Len(tools),
     msgraph_mcp |-> MSGRAPH_MCP_URL]

\* GET /schema: a static document, kept to its top-level keys
get_schema ==
    [openapi |-> "3.0.0",
     info |-> [title |-> "Action Agent API",
               description |-> "Identity & Access Management operations",
               version |-> "1.0.0"],
     paths |-> {"/"},
     components |-> {"BedrockRequest", "BedrockResponse"}]

\* the GET routes the application declares
GetRoutes == {"/health", "/schema"}

\* the framework's answer to a path no route matches
NotFound == [status_code |-> 404, content |-> [detail |-> "Not Found"]]

\* GET `path`
get_route(path, tools) ==
    IF path = "/health" THEN JSONResponse(health_check(tools), 200)
    ELSE IF path = "/schema" THEN JSONResponse(get_schema, 200)
    ELSE NotFound

\* ------------------------------------------------------------------ inputs

\* a Python name before its first assignment, and after
Unbound == [bound |-> FALSE, val |-> <<>>]
Bound(x) == [bound |-> TRUE, val |-> x]

\* tool descriptors: the two local helpers, then what the remote server lists
LocalTools == <<[name |-> "log_action", id |-> 0],
                [name |-> "validate_request", id |-> 0]>>

RemoteToolLists ==
    {[i \in 1..n |-> [name |-> "msgraph", id |-> i]] : n \in 0..MaxTools}

\* how the remote MCP server behaves while the process starts
RemoteBehaviours == {"ok", "unreachable", "list_fails", "close_fails"}

\* an optional key of a JSON object
Opt(k, vals) == {<<>>} \cup {k :> v : v \in vals}

\* entries of a "parameters" array
Entries ==
    {n @@ v : n \in Opt("name", {JStr("email"), JStr("role")}),
              v \in Opt("value", {JStr("abc"), JStr("42")})}

RECURSIVE ArraysUpTo(_)
ArraysUpTo(n) ==
    IF n = 0 THEN {<<>>}
    ELSE LET shorter == ArraysUpTo(n - 1)
         IN  shorter \cup {Append(a, e) : a \in shorter, e \in Entries}

\* values of the "parameters" key: arrays of entries, and a number
ParameterValues ==
    {[t |-> "list", items |-> a] : a \in ArraysUpTo(MaxParams)}
    \cup {[t |-> "num", v |-> "5"]}

\* JSON objects sent to POST /
Objects ==
    {ag @@ fn @@ ps @@ it :
        ag \in Opt("actionGroup", {"iam"}),
        fn \in Opt("function", {"create_user"}),
        ps \in Opt("parameters", ParameterValues),
        it \in Opt("inputText", {"onboard Ann"})}

\* request bodies: text that is no JSON, JSON that is no object, objects
RawBodies ==
    {[kind |-> "invalid", obj |-> <<>>], [kind |-> "array", obj |-> <<>>]}
    \cup {[kind |-> "object", obj |-> o] : o \in Objects}

\* what agent.run may do: return a text, raise, or return an object that
\* JSONResponse cannot encode
AgentOutcomes ==
    {[kind |-> "text",   text |-> <<"Created user ", "a@b.com">>],
     [kind |-> "raise",  text |-> <<"tool call failed">>],
     [kind |-> "object", text |-> <<"AgentResult">>]}

GetPaths == GetRoutes \cup {"/ping"}

\* ------------------------------------------------------------------- state

VARIABLES
    env_url,        \* is MSGRAPH_MCP_URL set in the environment
    remote,         \* behaviour of the remote MCP server
    remote_tools,   \* the tool list the remote server holds
    pc,             \* position of the module-level code
    session,        \* the MCP client session: "closed" or "open"
    connects,       \* times the session was entered
    pending,        \* an exception is in flight inside the with block
    msgraph_tools,  \* the module global of that name
    all_tools,      \* the module global of that name
    agent,          \* the module global of that name
    printed,        \* lines the last step wrote to standard output
    last,           \* the last call or request, with its inputs and result
    failed_before   \* some earlier POST / ended in the except clause

vars == <<env_url, remote, remote_tools, pc, session, connects, pending,
          msgraph_tools, all_tools, agent, printed, last, failed_before>>

environment == <<env_url, remote, remote_tools>>
globals == <<msgraph_tools, all_tools, agent>>
connection == <<session, connects, pending>>

Init ==
    /\ env_url \in BOOLEAN
    /\ remote \in RemoteBehaviours
    /\ remote_tools \in RemoteToolLists
    /\ pc = "config"
    /\ session = "closed"
    /\ connects = 0
    /\ pending = FALSE
    /\ msgraph_tools = Unbound
    /\ all_tools = Unbound
    /\ agent = Unbound
    /\ printed = <<>>
    /\ last = [op |-> "none"]
    /\ failed_before = FALSE

\* ----------------------------------------------------------------- startup

\* MSGRAPH_MCP_URL is a literal; the environment is not read
CheckConfig ==
    /\ pc = "config"
    /\ pc' = IF MSGRAPH_MCP_URL = "" THEN "aborted" ELSE "enter"
    /\ printed' = <<>>
    /\ UNCHANGED <<environment, connection, globals, last, failed_before>>

\* `with streamable_http_mcp_client:` entered inside the try
EnterClient ==
    /\ pc = "enter"
    /\ connects' = connects + 1
    /\ IF remote = "unreachable"
       THEN /\ session' = session
            /\ printed' = <<<<"Error entering MCP client:", "unreachable">>>>
            /\ pc' = "all_tools"
       ELSE /\ session' = "open"
            /\ printed' = <<>>
            /\ pc' = "list"
    /\ UNCHANGED <<environment, pending, globals, last, failed_before>>

\* the body of the with block
ListTools ==
    /\ pc = "list"
    /\ printed' = <<<<"Hello">>>>
    /\ IF remote = "list_fails"
       THEN pending' = TRUE /\ msgraph_tools' = msgraph_tools
       ELSE pending' = FALSE /\ msgraph_tools' = Bound(remote_tools)
    /\ pc' = "exit"
    /\ UNCHANGED <<environment, session, connects, all_tools, agent, last,
                   failed_before>>

\* leaving the with block closes the session; the except clause prints
ExitClient ==
    /\ pc = "exit"
    /\ session' = "closed"
    /\ pending' = FALSE
    /\ printed' = IF pending
                  THEN <<<<"Error entering MCP client:", "list failed">>>>
                  ELSE IF remote = "close_fails"
                  THEN <<<<"Error entering MCP client:", "close failed">>>>
                  ELSE <<>>
    /\ pc' = "all_tools"
    /\ UNCHANGED <<environment, connects, globals, last, failed_before>>

\* a variant that goes on with the local tools when msgraph_tools is unbound
BuildAllTools_local_only ==
    /\ pc = "all_tools"
    /\ all_tools' = Bound(LocalTools
                          \o (IF msgraph_tools.bound THEN msgraph_tools.val
                              ELSE <<>>))
    /\ printed' = <<[i \in 1..Len(all_tools'.val) |-> all_tools'.val[i].name]>>
    /\ pc' = "agent"
    /\ UNCHANGED <<environment, connection, msgraph_tools, agent, last,
                   failed_before>>

\* all_tools = [log_action, validate_request, *msgraph_tools]: a NameError
\* when msgraph_tools was never assigned
BuildAllTools ==
    /\ pc = "all_tools"
    /\ IF msgraph_tools.bound
       THEN /\ all_tools' = Bound(LocalTools \o msgraph_tools.val)
            /\ printed' =
                 <<[i \in 1..Len(all_tools'.val) |-> all_tools'.val[i].name]>>
            /\ pc' = "agent"
       ELSE /\ all_tools' = all_tools
            /\ printed' = <<>>
            /\ pc' = "aborted"
    /\ UNCHANGED <<environment, connection, msgraph_tools, agent, last,
                   failed_before>>

BuildAgent ==
    /\ pc = "agent"
    /\ agent' = Bound([name |-> "Action Agent", tools |-> all_tools.val])
    /\ printed' = <<>>
    /\ pc' = "main"
    /\ UNCHANGED <<environment, connection, msgraph_tools, all_tools, last,
                   failed_before>>

\* app = FastAPI(...), the routes, the banner (its lines abridged to their
\* labels), uvicorn.run
StartServer ==
    /\ pc = "main"
    /\ printed' = <<<<"API Endpoint">>, <<"Health Check">>,
                    <<"OpenAPI Schema">>,
                    <<"MS Graph MCP: ", MSGRAPH_MCP_URL>>,
                    <<"Tools loaded: ">>>>
    /\ pc' = "serving"
    /\ UNCHANGED <<environment, connection, globals, last, failed_before>>

\* ----------------------------------------------------------------- serving

\* a variant in which a request that fails takes the server down
Post_failure_stops_server ==
    /\ pc = "serving"
    /\ last.op = "none"
    /\ \E raw \in RawBodies, outcome \in AgentOutcomes :
         LET h == bedrock_action_handler(raw, outcome)
         IN  /\ last' = [op |-> "POST /", raw |-> raw, outcome |-> outcome,
                         response |-> h.response, prompts |-> h.prompts,
                         raised |-> h.raised]
             /\ printed' = h.printed
             /\ failed_before' = (failed_before \/ h.raised)
             /\ pc' = IF h.raised THEN "aborted" ELSE pc
    /\ UNCHANGED <<environment, connection, globals>>

\* POST /
Post ==
    /\ pc = "serving"
    /\ last.op = "none"
    /\ \E raw \in RawBodies, outcome \in AgentOutcomes :
         LET h == bedrock_action_handler(raw, outcome)
         IN  /\ last' = [op |-> "POST /", raw |-> raw, outcome |-> outcome,
                         response |-> h.response, prompts |-> h.prompts,
                         raised |-> h.raised]
             /\ printed' = h.printed
             /\ failed_before' = (failed_before \/ h.raised)
    /\ UNCHANGED <<environment, pc, connection, globals>>

\* a variant in which a GET registers one more tool handle
Get_registers_tool ==
    /\ pc = "serving"
    /\ last.op = "none"
    /\ \E path \in GetPaths :
         last' = [op |-> "GET", path |-> path,
                  response |-> get_route(path, all_tools.val)]
    /\ printed' = <<>>
    /\ all_tools' = Bound(Append(all_tools.val, [name |-> "health", id |-> 0]))
    /\ UNCHANGED <<environment, pc, connection, msgraph_tools, agent,
                   failed_before>>

\* GET of a declared route, or of /ping
Get ==
    /\ pc = "serving"
    /\ last.op = "none"
    /\ \E path \in GetPaths :
         last' = [op |-> "GET", path |-> path,
                  response |-> get_route(path, all_tools.val)]
    /\ printed' = <<>>
    /\ UNCHANGED <<environment, pc, connection, globals, failed_before>>

\* the tool log_action, called by the agent or directly
CallLogAction ==
    /\ pc = "serving"
    /\ last.op = "none"
    /\ \E action \in Texts, target \in Texts, result \in Texts :
         /\ last' = [op |-> "log_action", action |-> action,
                     target |-> target, result |-> result,
                     returned |-> log_action_return(action, target, result)]
         /\ printed' = log_action_output(action, target, result)
    /\ UNCHANGED <<environment, pc, connection, globals, failed_before>>

\* the tool validate_request, called by the agent or directly
CallValidateRequest ==
    /\ pc = "serving"
    /\ last.op = "none"
    /\ \E request_type \in RequestKinds, data \in SUBSET FieldNames :
         last' = [op |-> "validate_request", request_type |-> request_type,
                  data |-> data,
                  returned |-> validate_request(request_type, data)]
    /\ printed' = <<>>
    /\ UNCHANGED <<environment, pc, connection, globals, failed_before>>

\* the call or request returns to its caller: its locals are gone and the
\* server waits for the next one
Return ==
    /\ pc = "serving"
    /\ last.op # "none"
    /\ last' = [op |-> "none"]
    /\ printed' = <<>>
    /\ UNCHANGED <<environment, pc, connection, globals, failed_before>>

Next ==
    \/ CheckConfig
    \/ EnterClient
    \/ ListTools
    \/ ExitClient
    \/ BuildAllTools
    \/ BuildAgent
    \/ StartServer
    \/ Post
    \/ Get
    \/ CallLogAction
    \/ CallValidateRequest
    \/ Return

Spec == Init /\ [][Next]_vars

\* ------------------------------------------------------------------ claims

\* the shape of the vendor envelope
HasEnvelope(content) ==
    /\ DOMAIN content = {"messageVersion", "response"}
    /\ DOMAIN content.response =
         {"actionGroup", "function", "functionResponse"}
    /\ DOMAIN content.response.functionResponse = {"responseBody"}
    /\ DOMAIN content.response.functionResponse.responseBody = {"TEXT"}
    /\ DOMAIN content.response.functionResponse.responseBody.TEXT = {"body"}

EnvelopeBody(content) ==
    content.response.functionResponse.responseBody.TEXT.body

\* C1: for a request kind of the fixed table, validate_request returns
\* valid=True exactly when every required field of the kind is a key of the
\* mapping, and adding a key that the kind does not require never changes
\* the result.
C1_ValidIffRequiredPresent ==
    (last.op = "validate_request"
        /\ last.request_type \in {"create_user", "grant_access", "assign_group"})
    => LET required == Range(required_fields[last.request_type])
       IN  /\ last.returned.valid = (required \subseteq last.data)
           /\ \A extra \in FieldNames \ required :
                validate_request(last.request_type, last.data \cup {extra})
                    = last.returned

C1_Witness ==
    /\ last.op = "validate_request"
    /\ last.request_type = "create_user"
    /\ last.data = {"email", "first_name", "last_name", "note"}
    /\ last.returned = [valid |-> TRUE]

\* C2: for a request kind outside the fixed table, validate_request returns
\* invalid with the "Unknown request_type" error naming the kind, whatever
\* keys the mapping holds; it never reports missing fields instead.
C2_UnknownKindAlwaysUnknown ==
    (last.op = "validate_request"
        /\ last.request_type \notin {"create_user", "grant_access", "assign_group"})
    => /\ last.returned.valid = FALSE
       /\ "error" \in DOMAIN last.returned
       /\ last.returned.error = <<"Unknown request_type: ", last.request_type>>

C2_Witness ==
    /\ last.op = "validate_request"
    /\ last.request_type = "unknown_kind"
    /\ AllRequired \subseteq last.data
    /\ last.returned.valid = FALSE
    /\ Head(last.returned.error) = "Unknown request_type: "

\* C3: every POST / that ends in the except clause, a failure of decoding
\* included, is answered with HTTP 200 and the full vendor envelope, whose
\* body carries the error text.
C3_FailureStillEnvelope200 ==
    (last.op = "POST /" /\ last.raised)
    => /\ last.response.status_code = 200
       /\ HasEnvelope(last.response.content)
       /\ Head(EnvelopeBody(last.response.content)) = "Error: "

\* C4: a POST / whose JSON object lacks `function` (likewise `actionGroup`)
\* is answered with HTTP 200 and the full envelope, the missing field set to
\* "unknown", whether the agent returns or raises.
C4_MissingFieldDefaultsUnknown ==
    (last.op = "POST /" /\ last.raw.kind = "object")
    => /\ "function" \notin DOMAIN last.raw.obj
          => /\ last.response.status_code = 200
             /\ HasEnvelope(last.response.content)
             /\ last.response.content.response.function = "unknown"
       /\ "actionGroup" \notin DOMAIN last.raw.obj
          => /\ last.response.status_code = 200
             /\ HasEnvelope(last.response.content)
             /\ last.response.content.response.actionGroup = "unknown"

C4_Witness ==
    /\ last.op = "POST /"
    /\ last.raw.kind = "object"
    /\ DOMAIN last.raw.obj = {"inputText"}
    /\ last.raised
    /\ last.prompts # <<>>
    /\ last.response.status_code = 200
    /\ last.response.content.response.function = "unknown"
    /\ last.response.content.response.actionGroup = "unknown"

\* C5 as claimed: GET /ping is answered with HTTP 200 and exactly the
\* payload {"status": "healthy"}.
C5_PingFixedPayload ==
    (last.op = "GET" /\ last.path = "/ping")
    => last.response = JSONResponse([status |-> "healthy"], 200)

\* C5: GET /health is answered with HTTP 200 and the payload {status:
\* "healthy", tools: the number of tools loaded at startup, msgraph_mcp: the
\* endpoint URL}, whatever requests came before.
C5_HealthPayload ==
    (last.op = "GET" /\ last.path = "/health")
    => /\ last.response.status_code = 200
       /\ last.response.content =
            [status |-> "healthy",
             tools |-> 2 + Len(remote_tools),
             msgraph_mcp |-> "http://100.28.229.240:8000/mcp"]

C5_Witness ==
    /\ last.op = "GET"
    /\ last.path = "/health"
    /\ failed_before
    /\ last.response.content.status = "healthy"
    /\ last.response.content.tools = 2 + MaxTools

\* C6: while the process serves, the tool-provider connection opened at
\* startup is open, and it was opened exactly once.
C6_ConnectionOpenWhileServing ==
    pc = "serving" => (session = "open" /\ connects = 1)

\* C7: when opening the connection or listing the tools fails at startup,
\* no agent is constructed and no request is served: the startup stops at
\* the tool list, which it cannot build; and the process never serves with
\* a tool list that lacks the remote tools.
C7_ToolFailureAbortsStartup ==
    /\ remote \in {"unreachable", "list_fails"}
       => /\ pc \in {"config", "enter", "list", "exit", "all_tools", "aborted"}
          /\ ~msgraph_tools.bound
          /\ ~all_tools.bound
          /\ ~agent.bound
    /\ pc = "serving" => all_tools = Bound(LocalTools \o remote_tools)

C7_Witness ==
    /\ remote = "list_fails"
    /\ connects = 1
    /\ pc = "aborted"

\* C8: without the endpoint URL variable in the environment, no connection
\* is attempted and the process never serves.
C8_MissingUrlAbortsStartup ==
    ~env_url => (pc # "serving" /\ connects = 0)

\* C9: a step of the serving process, a failed POST / included, leaves the
\* process serving and the agent, the tool list and the connection as they
\* were; and a well-formed POST / for which the agent returns a text is
\* answered with HTTP 200 and that text, whatever failed before it.
C9_FailureLeavesServerUnchanged ==
    [][pc = "serving"
       => /\ pc' = "serving"
          /\ globals' = globals
          /\ connection' = connection
          /\ (last'.op = "POST /"
                /\ last'.raw.kind = "object"
                /\ dict_get_default(last'.raw.obj, "parameters",
                                    [t |-> "list", items |-> <<>>]).t = "list"
                /\ last'.outcome.kind = "text")
             => /\ last'.response.status_code = 200
                /\ HasEnvelope(last'.response.content)
                /\ EnvelopeBody(last'.response.content) = last'.outcome.text]_vars

C9_Witness ==
    /\ pc = "serving"
    /\ failed_before
    /\ last.op = "POST /"
    /\ ~last.raised
    /\ last.response.status_code = 200
    /\ EnvelopeBody(last.response.content) = last.outcome.text

\* C10: a call of log_action writes exactly one line to standard output,
\* returns a string that contains the action, the target and the result as
\* given, and changes nothing else.
C10_LogActionOneLineVerbatim ==
    [][last'.op = "log_action"
       => /\ Len(printed') = 1
          /\ Contains(last'.returned, last'.action)
          /\ Contains(last'.returned, last'.target)
          /\ Contains(last'.returned, last'.result)
          /\ Head(last'.returned) = "Logged: "
          /\ UNCHANGED <<pc, globals, connection, failed_before>>]_vars

C10_Witness ==
    /\ last.op = "log_action"
    /\ last.action = <<" on ">>
    /\ last.target = <<"a@b.com">>
    /\ last.result = <<"a@b.com", " on ">>
    /\ Len(printed) = 1
    /\ last.returned =
         <<"Logged: ", " on ", " on ", "a@b.com", ": ", "a@b.com", " on ">>

\* the place of field f in the table row `fields`
PlaceIn(fields, f) == CHOOSE i \in 1..Len(fields) : fields[i] = f

\* the names a "Missing fields: a, b" error lists, in its order
NamesListed(error) ==
    [j \in 1..(Len(error) \div 2) |-> error[2 * j]]

\* C11: for a known kind with a required field absent, the error of
\* validate_request is "Missing fields: " followed by names separated by
\* ", "; the names are exactly the required fields of that kind that are not
\* keys of the mapping, each once, in the order of the table.
C11_MissingFieldsNamedExactly ==
    (last.op = "validate_request"
        /\ last.request_type \in {"create_user", "grant_access", "assign_group"}
        /\ ~(Range(required_fields[last.request_type]) \subseteq last.data))
    => LET fields == required_fields[last.request_type]
           error  == last.returned.error
           named  == NamesListed(error)
       IN  /\ last.returned.valid = FALSE
           /\ Head(error) = "Missing fields: "
           /\ Len(error) % 2 = 0
           /\ \A i \in 2..Len(error) : (i % 2 = 1) => error[i] = ", "
           /\ Range(named) = Range(fields) \ last.data
           /\ \A i, j \in 1..Len(named) :
                i < j => PlaceIn(fields, named[i]) < PlaceIn(fields, named[j])

C11_Witness ==
    /\ last.op = "validate_request"
    /\ last.request_type = "create_user"
    /\ last.data = {"email", "user_id", "note"}
    /\ last.returned.error =
         <<"Missing fields: ", "first_name", ", ", "last_name">>

\* C12: the tool list and the agent, once assigned at startup, are never
\* assigned again; while the process serves they are the local tools
\* followed by the remote ones and the agent built over that list, and no
\* request, health or schema call or tool call changes anything but the
\* lines written to standard output.
C12_GlobalsFixedAfterStartup ==
    [][/\ all_tools.bound => all_tools' = all_tools
       /\ agent.bound => agent' = agent
       /\ msgraph_tools.bound => msgraph_tools' = msgraph_tools
       /\ pc = "serving"
          => /\ all_tools = Bound(LocalTools \o remote_tools)
             /\ agent = Bound([name |-> "Action Agent",
                               tools |-> LocalTools \o remote_tools])
             /\ UNCHANGED <<environment, pc, connection, globals>>]_vars

C12_Witness ==
    /\ pc = "serving"
    /\ failed_before
    /\ last.op = "validate_request"
    /\ Len(remote_tools) > 0
    /\ all_tools = Bound(LocalTools \o remote_tools)
    /\ agent.bound
    /\ agent.val.tools = all_tools.val

\* the value the handler reads for `parameters`
ParametersOf(obj) ==
    dict_get_default(obj, "parameters", [t |-> "list", items |-> <<>>])

\* the response echoes actionGroup and function, and carries `text`
EchoesRequest(obj, content, text) ==
    /\ HasEnvelope(content)
    /\ content.messageVersion = "1.0"
    /\ content.response.actionGroup =
         (IF "actionGroup" \in DOMAIN obj THEN obj["actionGroup"] ELSE "unknown")
    /\ content.response.function =
         (IF "function" \in DOMAIN obj THEN obj["function"] ELSE "unknown")
    /\ EnvelopeBody(content) = text

\* C13 as claimed: every POST / with a JSON object body invokes the agent
\* exactly once, and when the agent returns a text, the response echoes
\* actionGroup and function and its TEXT.body is that text.
C13_EveryObjectBodyInvokesAgentOnce ==
    (last.op = "POST /" /\ last.raw.kind = "object")
    => /\ Len(last.prompts) = 1
       /\ last.outcome.kind = "text"
          => /\ last.response.status_code = 200
             /\ EchoesRequest(last.raw.obj, last.response.content,
                              last.outcome.text)

\* C13: a POST / with a JSON object body whose `parameters`, when present,
\* is an array of entries is decoded, then the agent is invoked exactly once
\* with a prompt made from the decoded parameters, then the result is
\* encoded; when the agent returns a text, the request lines are printed
\* before the response line, and the response is HTTP 200, echoes the
\* request's actionGroup and function ("unknown" for an absent one) and has
\* that text as its TEXT.body.
C13_DecodeInvokeOnceEncode ==
    (last.op = "POST /" /\ last.raw.kind = "object"
        /\ ParametersOf(last.raw.obj).t = "list")
    => /\ Len(last.prompts) = 1
       /\ Contains(last.prompts[1],
                   json_dumps(parse_bedrock_parameters(
                                  ParametersOf(last.raw.obj)).val))
       /\ Head(printed[2]) = "[Bedrock Request] Function: "
       /\ last.outcome.kind = "text"
          => /\ ~last.raised
             /\ last.response.status_code = 200
             /\ EchoesRequest(last.raw.obj, last.response.content,
                              last.outcome.text)
             /\ Len(printed) = 6
             /\ printed[5] = <<"[Bedrock Response] ">> \o last.outcome.text

C13_Witness ==
    /\ last.op = "POST /"
    /\ last.raw.kind = "object"
    /\ DOMAIN last.raw.obj =
         {"actionGroup", "function", "parameters", "inputText"}
    /\ ParametersOf(last.raw.obj).t = "list"
    /\ Len(ParametersOf(last.raw.obj).items) = 2
    /\ last.outcome.kind = "text"
    /\ Len(last.prompts) = 1
    /\ last.response.content.response.function = "create_user"
    /\ last.response.content.response.actionGroup = "iam"
    /\ EnvelopeBody(last.response.content) = last.outcome.text

\* ------------------------------------- parse_bedrock_parameters on its own

\* entries with a name and a value that may each be absent, null or empty;
\* a value may also be a JSON number
RichEntries ==
    {n @@ v :
        n \in Opt("name", {JNone, JStr(""), JStr("email"), JStr("role")}),
        v \in Opt("value", {JNone, JStr(""), JStr("abc"), JStr("42"),
                            JStr("null"), JNum("7")})}

RECURSIVE RichArraysUpTo(_)
RichArraysUpTo(n) ==
    IF n = 0 THEN {<<>>}
    ELSE LET shorter == RichArraysUpTo(n - 1)
         IN  shorter \cup {Append(a, e) : a \in shorter, e \in RichEntries}

\* the process serves (no remote tools) and a handler is about to parse
InitParse ==
    /\ env_url = FALSE
    /\ remote = "ok"
    /\ remote_tools = <<>>
    /\ pc = "serving"
    /\ session = "closed"
    /\ connects = 1
    /\ pending = FALSE
    /\ msgraph_tools = Bound(<<>>)
    /\ all_tools = Bound(LocalTools)
    /\ agent = Bound([name |-> "Action Agent", tools |-> LocalTools])
    /\ printed = <<>>
    /\ failed_before = FALSE
    /\ last \in {[op |-> "parse_input",
                  parameters |-> [t |-> "list", items |-> a]] :
                 a \in RichArraysUpTo(MaxParams)}

ApplyParse ==
    /\ last.op = "parse_input"
    /\ last' = [op |-> "parse_bedrock_parameters",
                parameters |-> last.parameters,
                returned |-> parse_bedrock_parameters(last.parameters)]
    /\ UNCHANGED <<environment, pc, connection, globals, printed,
                   failed_before>>

NextParse == ApplyParse

SpecParse == InitParse /\ [][NextParse]_vars

\* the entry has a name and a value, neither missing, null nor empty
HasNameAndValue(e) ==
    /\ "name" \in DOMAIN e /\ e["name"].t = "str" /\ e["name"].v # ""
    /\ "value" \in DOMAIN e /\ e["value"].t # "none" /\ e["value"].v # ""

\* what a value stands for: the JSON reading of a string that has one, else
\* the value as given
DecodedOrRaw(x) ==
    CASE x = JStr("42")   -> JNum("42")
      [] x = JStr("null") -> JNone
      [] OTHER            -> x

====
